---- MODULE Spec2Model ----
(***************************************************************************)
(* Pinecone: a compact serde wire format.  The model covers the two       *)
(* output sinks (ser/output.rs), the entry points to_slice / to_vec       *)
(* (ser/mod.rs) and from_bytes / take_from_bytes (de/mod.rs), and the     *)
(* shape-driven encoder, decoder and varint codec they drive.             *)
(*                                                                         *)
(* Integers wider than a byte are kept as little-endian bit sequences     *)
(* (bit 1 is the least significant), so 32- and 64-bit values keep their  *)
(* exact width.  A byte is a number in 0..255.                            *)
(***************************************************************************)
EXTENDS Integers, Sequences, FiniteSets, TLC

VARIABLES
    usizeBits,  \* pointer width of the platform: 32 or 64
    name,       \* name of the sample value under test ("" when none)
    shape,      \* static shape of the value being encoded / decoded
    value,      \* the value handed to to_vec / to_slice
    pc,         \* position of the caller
    ops,        \* sink operations the serializer still has to issue
    vec,        \* VecOutput.0
    buf,        \* SliceOutput.buf (the caller's buffer)
    idx,        \* SliceOutput.idx
    vecRes,     \* result of to_vec
    sliceRes,   \* result of to_slice
    input,      \* the byte slice handed to from_bytes / take_from_bytes
    extra,      \* bytes appended after the encoding in input
    deRes,      \* result of from_bytes / take_from_bytes
    cursor,     \* Deserializer.input: the bytes not consumed yet
    todo,       \* shapes the running decode still has to read, next first
    walkErr,    \* error that ended the running decode ("none" when none)
    call,       \* the last call made on a SliceOutput used directly
    calls       \* number of calls made on it

vars == <<usizeBits, name, shape, value, pc, ops, vec, buf, idx,
          vecRes, sliceRes, input, extra, deRes, cursor, todo, walkErr, call, calls>>

deVars == <<cursor, todo, walkErr>>

sinkVars == <<call, calls>>

---------------------------------------------------------------------------
(* Bits and bytes *)

RECURSIVE NatToBits(_, _)
\* the w low bits of n, least significant first
NatToBits(n, w) == IF w = 0 THEN <<>> ELSE <<n % 2>> \o NatToBits(n \div 2, w - 1)

RECURSIVE BitsToNat(_)
\* the number a short bit sequence denotes (at most 30 bits)
BitsToNat(bits) ==
    IF bits = <<>> THEN 0 ELSE bits[1] + 2 * BitsToNat(Tail(bits))

Zeros(n) == [i \in 1..n |-> 0]

Ones(n) == [i \in 1..n |-> 1]

IsZero(bits) == \A i \in 1..Len(bits) : bits[i] = 0

RECURSIVE Trim(_)
\* a bit sequence without its leading (most significant) zero bits
Trim(bits) ==
    IF bits = <<>> THEN <<>>
    ELSE IF bits[Len(bits)] = 0 THEN Trim(SubSeq(bits, 1, Len(bits) - 1))
    ELSE bits

\* a bit sequence cut or zero-extended to exactly w bits (an `as` cast)
Resize(bits, w) ==
    IF Len(bits) >= w THEN SubSeq(bits, 1, w) ELSE bits \o Zeros(w - Len(bits))

\* value >> n on a fixed-width bit sequence
ShiftRight(bits, n) ==
    IF n >= Len(bits) THEN Zeros(Len(bits))
    ELSE SubSeq(bits, n + 1, Len(bits)) \o Zeros(n)

\* the value as a number when it is below 2^20, and 2^20 otherwise; every
\* slice of the model is far shorter than 2^20 bytes
SatNat(bits) ==
    IF \E i \in 21..Len(bits) : bits[i] = 1 THEN 1048576
    ELSE BitsToNat(SubSeq(bits, 1, IF Len(bits) < 20 THEN Len(bits) ELSE 20))

RECURSIVE Flatten(_)
Flatten(ss) == IF ss = <<>> THEN <<>> ELSE ss[1] \o Flatten(Tail(ss))

\* uN::to_le_bytes on a bit sequence whose length is a multiple of 8
to_le_bytes(bits) ==
    [i \in 1..(Len(bits) \div 8) |-> BitsToNat(SubSeq(bits, 8 * (i - 1) + 1, 8 * i))]

\* uN::from_le_bytes
from_le_bytes(bytes) == Flatten([i \in 1..Len(bytes) |-> NatToBits(bytes[i], 8)])

---------------------------------------------------------------------------
(* Varint codec (crate::varint::VarintUsize) *)

\* VarintUsize::varint_usize_max: 5 on 32-bit targets, 10 on 64-bit targets
varint_usize_max(w) == (w + 6) \div 7

RECURSIVE to_buf_loop(_, _, _, _)
to_buf_loop(val, out, i, max) ==
    IF i >= max THEN out
    ELSE LET low == BitsToNat(SubSeq(val, 1, 7))
             rest == ShiftRight(val, 7)
         IN  IF ~IsZero(rest)
             THEN to_buf_loop(rest, Append(out, low + 128), i + 1, max)
             ELSE Append(out, low)

\* VarintUsize::to_buf: the encoding of a usize of w bits
to_buf(val, w) == to_buf_loop(val, <<>>, 0, varint_usize_max(w))

\* the varint of a small number (a length or a variant index)
VarintOfNat(n, w) == to_buf(NatToBits(n, w), w)

---------------------------------------------------------------------------
(* Shapes and values                                                       *)
(* A shape is [t, k, w]: its tag, its component shapes and, for a         *)
(* fixed-width number, its width in bits.  A value is [t, b, k, d]: its   *)
(* tag, its bits (numbers) or bytes (str, bytes), its components and its  *)
(* number (bool 0/1, char code point, Option tag, enum variant index).    *)

FixedWidth == {"uint", "int", "float"}

FixedArity == {"tuple", "array", "tuple_struct", "struct"}

NoVal == [t |-> "none", b |-> <<>>, k |-> <<>>, d |-> 0]

\* the component shapes a sequence or a map of n entries is made of
SeqShapes(s, n) == [i \in 1..n |-> s.k[1]]

MapShapes(s, n) == [i \in 1..(2 * n) |-> s.k[2 - (i % 2)]]

---------------------------------------------------------------------------
(* Serializer (ser/serializer.rs): the sink operations a value issues *)

Push(b) == [op |-> "push", data |-> <<b>>]

Extend(bytes) == [op |-> "extend", data |-> bytes]

RECURSIVE SerOps(_, _, _), SerOpsAll(_, _, _)
\* the calls on the output sink that serializing v of shape s makes, in order
SerOps(s, v, w) ==
    CASE s.t = "unit" -> <<>>
      [] s.t = "bool" -> <<Push(IF v.d = 1 THEN 1 ELSE 0)>>
      [] s.t \in FixedWidth ->
            IF s.w = 8 THEN <<Push(BitsToNat(v.b))>>
            ELSE <<Extend(to_le_bytes(v.b))>>
      [] s.t = "char" -> <<Extend(to_le_bytes(NatToBits(v.d, 32)))>>
      [] s.t = "varint" -> <<Extend(to_buf(Resize(v.b, w), w))>>
      [] s.t \in {"str", "bytes"} ->
            <<Extend(VarintOfNat(Len(v.b), w)), Extend(v.b)>>
      [] s.t = "option" ->
            IF v.d = 0 THEN <<Push(0)>>
            ELSE <<Push(1)>> \o SerOps(s.k[1], v.k[1], w)
      [] s.t = "seq" ->
            <<Extend(VarintOfNat(Len(v.k), w))>>
                \o SerOpsAll(SeqShapes(s, Len(v.k)), v.k, w)
      [] s.t = "map" ->
            <<Extend(VarintOfNat(Len(v.k) \div 2, w))>>
                \o SerOpsAll(MapShapes(s, Len(v.k) \div 2), v.k, w)
      [] s.t \in FixedArity -> SerOpsAll(s.k, v.k, w)
      [] s.t = "newtype" -> SerOps(s.k[1], v.k[1], w)
      [] s.t = "enum" ->
            <<Extend(VarintOfNat(v.d, w))>> \o SerOps(s.k[v.d + 1], v.k[1], w)

SerOpsAll(ss, vs, w) ==
    IF ss = <<>> THEN <<>>
    ELSE SerOps(ss[1], vs[1], w) \o SerOpsAll(Tail(ss), Tail(vs), w)

\* the bytes a sequence of sink operations carries
OpsBytes(os) == Flatten([i \in 1..Len(os) |-> os[i].data])

---------------------------------------------------------------------------
(* Deserializer (de/deserializer.rs) *)

DeOk(v, rest) == [ok |-> TRUE, val |-> v, rest |-> rest, err |-> "none"]

DeErr(e) == [ok |-> FALSE, val |-> NoVal, rest |-> <<>>, err |-> e]

\* Deserializer::try_take_n: the next n bytes and the cursor after them
CanTake(inp, n) == n <= Len(inp)

Taken(inp, n) == SubSeq(inp, 1, n)

After(inp, n) == SubSeq(inp, n + 1, Len(inp))

RECURSIVE varint_end(_, _, _)
\* position of the first byte with a clear high bit among the first max
\* bytes of inp, 0 when there is none
varint_end(inp, i, max) ==
    IF i > max \/ i > Len(inp) THEN 0
    ELSE IF inp[i] < 128 THEN i
    ELSE varint_end(inp, i + 1, max)

\* the 7-bit groups of the bytes, least significant group first
Groups(bytes) == Flatten([i \in 1..Len(bytes) |-> NatToBits(bytes[i] % 128, 7)])

\* Deserializer::try_take_varint: [ok, n, rest, err], n a usize of w bits
try_take_varint(inp, w) ==
    LET e == varint_end(inp, 1, varint_usize_max(w))
    IN  IF e = 0
        THEN [ok |-> FALSE, n |-> Zeros(w), rest |-> <<>>,
              err |-> "DeserializeBadVarint"]
        ELSE [ok |-> TRUE, n |-> Resize(Groups(Taken(inp, e)), w),
              rest |-> After(inp, e), err |-> "none"]

\* char::from_u32 on four little-endian bytes: the code point, or -1
CharFromBytes(bytes) ==
    LET n == bytes[1] + 256 * bytes[2] + 65536 * bytes[3]
    IN  IF bytes[4] # 0 \/ n > 1114111 \/ (n >= 55296 /\ n <= 57343)
        THEN -1 ELSE n

Cont(b) == b >= 128 /\ b <= 191

RECURSIVE Utf8Scan(_, _)
\* core::str::from_utf8 from position i on
Utf8Scan(bs, i) ==
    IF i > Len(bs) THEN TRUE
    ELSE LET b == bs[i]
             has(n) == i + n <= Len(bs)
         IN  CASE b < 128 -> Utf8Scan(bs, i + 1)
               [] b >= 194 /\ b <= 223 ->
                     has(1) /\ Cont(bs[i + 1]) /\ Utf8Scan(bs, i + 2)
               [] b >= 224 /\ b <= 239 ->
                     /\ has(2)
                     /\ Cont(bs[i + 1]) /\ Cont(bs[i + 2])
                     /\ (b = 224 => bs[i + 1] >= 160)
                     /\ (b = 237 => bs[i + 1] <= 159)
                     /\ Utf8Scan(bs, i + 3)
               [] b >= 240 /\ b <= 244 ->
                     /\ has(3)
                     /\ Cont(bs[i + 1]) /\ Cont(bs[i + 2]) /\ Cont(bs[i + 3])
                     /\ (b = 240 => bs[i + 1] >= 144)
                     /\ (b = 244 => bs[i + 1] <= 143)
                     /\ Utf8Scan(bs, i + 4)
               [] OTHER -> FALSE

Utf8Valid(bs) == (\A i \in 1..Len(bs) : bs[i] < 128) \/ Utf8Scan(bs, 1)

\* HashMap::insert on the flat key, value, key, value list of a map
RECURSIVE MapInsert(_, _, _)
MapInsert(kv, key, val) ==
    IF kv = <<>> THEN <<key, val>>
    ELSE IF kv[1] = key THEN <<key, val>> \o SubSeq(kv, 3, Len(kv))
    ELSE <<kv[1], kv[2]>> \o MapInsert(SubSeq(kv, 3, Len(kv)), key, val)

RECURSIVE MapCollect(_, _)
MapCollect(flat, acc) ==
    IF flat = <<>> THEN acc
    ELSE MapCollect(SubSeq(flat, 3, Len(flat)), MapInsert(acc, flat[1], flat[2]))

RECURSIVE Decode(_, _, _), DecodeAll(_, _, _)
\* deserializing a value of shape s from the cursor inp
Decode(s, inp, w) ==
    CASE s.t = "unit" -> DeOk([NoVal EXCEPT !.t = "unit"], inp)
      [] s.t = "bool" ->
            IF ~CanTake(inp, 1) THEN DeErr("DeserializeUnexpectedEnd")
            ELSE IF inp[1] \notin {0, 1} THEN DeErr("DeserializeBadBool")
            ELSE DeOk([NoVal EXCEPT !.t = "bool", !.d = inp[1]], After(inp, 1))
      [] s.t \in FixedWidth ->
            IF ~CanTake(inp, s.w \div 8) THEN DeErr("DeserializeUnexpectedEnd")
            ELSE DeOk([NoVal EXCEPT !.t = s.t,
                                    !.b = from_le_bytes(Taken(inp, s.w \div 8))],
                      After(inp, s.w \div 8))
      [] s.t = "char" ->
            IF ~CanTake(inp, 4) THEN DeErr("DeserializeUnexpectedEnd")
            ELSE IF CharFromBytes(Taken(inp, 4)) < 0 THEN DeErr("DeserializeBadChar")
            ELSE DeOk([NoVal EXCEPT !.t = "char", !.d = CharFromBytes(Taken(inp, 4))],
                      After(inp, 4))
      [] s.t = "varint" ->
            LET r == try_take_varint(inp, w)
            IN  IF ~r.ok THEN DeErr(r.err)
                ELSE DeOk([NoVal EXCEPT !.t = "varint", !.b = Trim(r.n)], r.rest)
      [] s.t \in {"str", "bytes"} ->
            LET r == try_take_varint(inp, w)
                n == SatNat(r.n)
            IN  IF ~r.ok THEN DeErr(r.err)
                ELSE IF ~CanTake(r.rest, n) THEN DeErr("DeserializeUnexpectedEnd")
                ELSE IF s.t = "str" /\ ~Utf8Valid(Taken(r.rest, n))
                     THEN DeErr("DeserializeBadUtf8")
                ELSE DeOk([NoVal EXCEPT !.t = s.t, !.b = Taken(r.rest, n)],
                          After(r.rest, n))
      [] s.t = "option" ->
            IF ~CanTake(inp, 1) THEN DeErr("DeserializeUnexpectedEnd")
            ELSE IF inp[1] = 0
                 THEN DeOk([NoVal EXCEPT !.t = "option"], After(inp, 1))
            ELSE IF inp[1] = 1
                 THEN LET r == Decode(s.k[1], After(inp, 1), w)
                      IN  IF ~r.ok THEN r
                          ELSE DeOk([NoVal EXCEPT !.t = "option", !.d = 1,
                                                  !.k = <<r.val>>], r.rest)
            ELSE DeErr("DeserializeBadOption")
      [] s.t \in {"seq", "map"} ->
            LET r == try_take_varint(inp, w)
                \* every component takes at least one byte, so a count above
                \* the remaining length fails within Len(rest) + 1 components
                n == IF SatNat(r.n) > Len(r.rest) THEN Len(r.rest) + 1
                     ELSE SatNat(r.n)
                a == DecodeAll(IF s.t = "seq" THEN SeqShapes(s, n)
                               ELSE MapShapes(s, n), r.rest, w)
            IN  IF ~r.ok THEN DeErr(r.err)
                ELSE IF ~a.ok THEN DeErr(a.err)
                ELSE DeOk([NoVal EXCEPT !.t = s.t,
                             !.k = IF s.t = "seq" THEN a.vals
                                   ELSE MapCollect(a.vals, <<>>)], a.rest)
      [] s.t \in FixedArity \cup {"newtype"} ->
            LET a == DecodeAll(s.k, inp, w)
            IN  IF ~a.ok THEN DeErr(a.err)
                ELSE DeOk([NoVal EXCEPT !.t = s.t, !.k = a.vals], a.rest)
      [] s.t = "enum" ->
            LET r == try_take_varint(inp, w)
                i == SatNat(r.n)
            IN  IF ~r.ok THEN DeErr(r.err)
                ELSE IF (\E j \in 33..Len(r.n) : r.n[j] = 1) \/ i >= Len(s.k)
                     THEN DeErr("DeserializeBadEnum")
                ELSE LET p == Decode(s.k[i + 1], r.rest, w)
                     IN  IF ~p.ok THEN p
                         ELSE DeOk([NoVal EXCEPT !.t = "enum", !.d = i,
                                                 !.k = <<p.val>>], p.rest)

DecodeAll(ss, inp, w) ==
    IF ss = <<>> THEN [ok |-> TRUE, vals |-> <<>>, rest |-> inp, err |-> "none"]
    ELSE LET h == Decode(ss[1], inp, w)
         IN  IF ~h.ok
             THEN [ok |-> FALSE, vals |-> <<>>, rest |-> <<>>, err |-> h.err]
             ELSE LET t == DecodeAll(Tail(ss), h.rest, w)
                  IN  IF ~t.ok THEN t ELSE [t EXCEPT !.vals = <<h.val>> \o t.vals]

\* what is left to read of a str or of a byte string once its length n is
\* known: a payload of n bytes
PayloadOf(s, n) == [t |-> IF s.t = "str" THEN "str_payload" ELSE "bytes_payload",
                    k |-> <<>>, w |-> n]

\* one read of the deserializer for shape s at cursor cur: the error, the
\* cursor after the read, and the shapes that now have to be read before the
\* rest.  Decode is the composition of these reads.
WalkStep(s, cur, w) ==
    LET go(c, push) == [err |-> "none", cursor |-> c, push |-> push]
        fail(e) == [err |-> e, cursor |-> cur, push |-> <<>>]
        r == try_take_varint(cur, w)
    IN  CASE s.t = "unit" -> go(cur, <<>>)
          [] s.t = "bool" ->
                IF ~CanTake(cur, 1) THEN fail("DeserializeUnexpectedEnd")
                ELSE IF cur[1] \notin {0, 1} THEN fail("DeserializeBadBool")
                ELSE go(After(cur, 1), <<>>)
          [] s.t \in FixedWidth ->
                IF ~CanTake(cur, s.w \div 8) THEN fail("DeserializeUnexpectedEnd")
                ELSE go(After(cur, s.w \div 8), <<>>)
          [] s.t = "char" ->
                IF ~CanTake(cur, 4) THEN fail("DeserializeUnexpectedEnd")
                ELSE IF CharFromBytes(Taken(cur, 4)) < 0 THEN fail("DeserializeBadChar")
                ELSE go(After(cur, 4), <<>>)
          [] s.t = "varint" ->
                IF ~r.ok THEN fail(r.err) ELSE go(r.rest, <<>>)
          [] s.t \in {"str", "bytes"} ->
                IF ~r.ok THEN fail(r.err)
                ELSE go(r.rest, <<PayloadOf(s, SatNat(r.n))>>)
          [] s.t \in {"str_payload", "bytes_payload"} ->
                IF ~CanTake(cur, s.w) THEN fail("DeserializeUnexpectedEnd")
                ELSE IF s.t = "str_payload" /\ ~Utf8Valid(Taken(cur, s.w))
                     THEN fail("DeserializeBadUtf8")
                ELSE go(After(cur, s.w), <<>>)
          [] s.t = "option" ->
                IF ~CanTake(cur, 1) THEN fail("DeserializeUnexpectedEnd")
                ELSE IF cur[1] = 0 THEN go(After(cur, 1), <<>>)
                ELSE IF cur[1] = 1 THEN go(After(cur, 1), s.k)
                ELSE fail("DeserializeBadOption")
          [] s.t \in {"seq", "map"} ->
                IF ~r.ok THEN fail(r.err)
                ELSE LET n == IF SatNat(r.n) > Len(r.rest) THEN Len(r.rest) + 1
                              ELSE SatNat(r.n)
                     IN  go(r.rest, IF s.t = "seq" THEN SeqShapes(s, n)
                                    ELSE MapShapes(s, n))
          [] s.t \in FixedArity \cup {"newtype"} -> go(cur, s.k)
          [] s.t = "enum" ->
                IF ~r.ok THEN fail(r.err)
                ELSE IF (\E j \in 33..Len(r.n) : r.n[j] = 1) \/ SatNat(r.n) >= Len(s.k)
                     THEN fail("DeserializeBadEnum")
                ELSE go(r.rest, <<s.k[SatNat(r.n) + 1]>>)

RECURSIVE ValEq(_, _)
\* PartialEq of two values: maps compare as sets of entries, the rest by parts
ValEq(a, b) ==
    /\ a.t = b.t
    /\ a.b = b.b
    /\ a.d = b.d
    /\ Len(a.k) = Len(b.k)
    /\ IF a.t = "map"
       THEN LET has(x, y) ==
                    \A i \in 1..(Len(x.k) \div 2) :
                        \E j \in 1..(Len(y.k) \div 2) :
                            /\ ValEq(x.k[2 * i - 1], y.k[2 * j - 1])
                            /\ ValEq(x.k[2 * i], y.k[2 * j])
            IN  has(a, b) /\ has(b, a)
       ELSE \A i \in 1..Len(a.k) : ValEq(a.k[i], b.k[i])

---------------------------------------------------------------------------
(* Output sinks (ser/output.rs) *)

\* SliceOutput::new
SliceOutput_new(b) == [buf |-> b, idx |-> 0]

\* try_extend with the capacity test off by one: data that fits exactly fails
SliceOutput_try_extend_strict(out, data) ==
    LET len == Len(data)
    IN  IF (len + out.idx) >= Len(out.buf) THEN [ok |-> FALSE, out |-> out]
        ELSE [ok |-> TRUE,
              out |-> [buf |-> [i \in 1..Len(out.buf) |->
                                   IF i > out.idx /\ i <= out.idx + len
                                   THEN data[i - out.idx] ELSE out.buf[i]],
                       idx |-> out.idx + len]]

\* try_extend that skips data that does not fit and reports success
SliceOutput_try_extend_skip(out, data) ==
    LET len == Len(data)
    IN  IF (len + out.idx) > Len(out.buf) THEN [ok |-> TRUE, out |-> out]
        ELSE [ok |-> TRUE,
              out |-> [buf |-> [i \in 1..Len(out.buf) |->
                                   IF i > out.idx /\ i <= out.idx + len
                                   THEN data[i - out.idx] ELSE out.buf[i]],
                       idx |-> out.idx + len]]

\* SerOutput::try_extend as the trait provides it, byte by byte through
\* try_push: the bytes that fit are stored before the call fails
SliceOutput_try_extend_default(out, data) ==
    LET room == Len(out.buf) - out.idx
        n == IF Len(data) <= room THEN Len(data) ELSE room
    IN  [ok |-> Len(data) <= room,
         out |-> [buf |-> [i \in 1..Len(out.buf) |->
                              IF i > out.idx /\ i <= out.idx + n
                              THEN data[i - out.idx] ELSE out.buf[i]],
                  idx |-> out.idx + n]]

\* <SliceOutput as SerOutput>::try_extend
SliceOutput_try_extend(out, data) ==
    LET len == Len(data)
    IN  IF (len + out.idx) > Len(out.buf) THEN [ok |-> FALSE, out |-> out]
        ELSE [ok |-> TRUE,
              out |-> [buf |-> [i \in 1..Len(out.buf) |->
                                   IF i > out.idx /\ i <= out.idx + len
                                   THEN data[i - out.idx] ELSE out.buf[i]],
                       idx |-> out.idx + len]]

\* try_push that stores the byte and forgets idx += 1
SliceOutput_try_push_stuck(out, data) ==
    IF out.idx >= Len(out.buf) THEN [ok |-> FALSE, out |-> out]
    ELSE [ok |-> TRUE,
          out |-> [buf |-> [out.buf EXCEPT ![out.idx + 1] = data],
                   idx |-> out.idx]]

\* <SliceOutput as SerOutput>::try_push
SliceOutput_try_push(out, data) ==
    IF out.idx >= Len(out.buf) THEN [ok |-> FALSE, out |-> out]
    ELSE [ok |-> TRUE,
          out |-> [buf |-> [out.buf EXCEPT ![out.idx + 1] = data],
                   idx |-> out.idx + 1]]

\* <SliceOutput as SerOutput>::release: split_at_mut(idx), the second half
\* (_unused) is dropped and only the first is returned
SliceOutput_release(out) ==
    LET used == SubSeq(out.buf, 1, out.idx)
        unused == SubSeq(out.buf, out.idx + 1, Len(out.buf))
    IN  [ok |-> TRUE, ret |-> <<used>>]

\* <SliceOutput as Index<usize>>::index, position i counted from 0
SliceOutput_index(out, i) == out.buf[i + 1]

\* <SliceOutput as IndexMut<usize>>::index_mut followed by a store of data
SliceOutput_index_mut(out, i, data) ==
    [buf |-> [out.buf EXCEPT ![i + 1] = data], idx |-> out.idx]

\* VecOutput::new
VecOutput_new == <<>>

\* try_extend that stores only the first byte of data
VecOutput_try_extend_first(v, data) ==
    [ok |-> TRUE, out |-> IF data = <<>> THEN v ELSE Append(v, data[1])]

\* try_extend that replaces what the vector holds by data
VecOutput_try_extend_replace(v, data) == [ok |-> TRUE, out |-> data]

\* <VecOutput as SerOutput>::try_extend
VecOutput_try_extend(v, data) == [ok |-> TRUE, out |-> v \o data]

\* try_push that inserts at the front instead of the back
VecOutput_try_push_front(v, data) == [ok |-> TRUE, out |-> <<data>> \o v]

\* <VecOutput as SerOutput>::try_push
VecOutput_try_push(v, data) == [ok |-> TRUE, out |-> Append(v, data)]

\* <VecOutput as SerOutput>::release
VecOutput_release(v) == [ok |-> TRUE, ret |-> v]

---------------------------------------------------------------------------
(* Entry points *)

Pending == [ok |-> FALSE, ret |-> <<>>, err |-> "pending"]

SerOk(ret) == [ok |-> TRUE, ret |-> ret, err |-> "none"]

SerErr(e) == [ok |-> FALSE, ret |-> <<>>, err |-> e]

DePending == DeErr("pending")

NoCall == [op |-> "none", data |-> <<>>, ok |-> TRUE]

\* de::from_bytes: the value alone, the cursor is discarded
from_bytes(s, inp, w) ==
    LET t == Decode(s, inp, w)
    IN  IF ~t.ok THEN DeErr(t.err) ELSE DeOk(t.val, <<>>)

\* take_from_bytes that returns the slice it was given instead of the cursor
take_from_bytes_whole(s, inp, w) ==
    LET t == Decode(s, inp, w)
    IN  IF ~t.ok THEN DeErr(t.err) ELSE DeOk(t.val, inp)

\* take_from_bytes that reports every failure as an unexpected end of input
take_from_bytes_masked(s, inp, w) ==
    LET t == Decode(s, inp, w)
    IN  IF ~t.ok THEN DeErr("DeserializeUnexpectedEnd") ELSE DeOk(t.val, t.rest)

\* take_from_bytes that returns the bytes in front of the slice, as many as
\* the cursor has left, instead of the cursor
take_from_bytes_front(s, inp, w) ==
    LET t == Decode(s, inp, w)
    IN  IF ~t.ok THEN DeErr(t.err) ELSE DeOk(t.val, SubSeq(inp, 1, Len(t.rest)))

\* de::take_from_bytes: the value and deserializer.input
take_from_bytes(s, inp, w) ==
    LET t == Decode(s, inp, w)
    IN  IF ~t.ok THEN DeErr(t.err) ELSE DeOk(t.val, t.rest)

---------------------------------------------------------------------------
(* Bounds of the model *)

\* varint values 0..MaxVarint are all encoded and decoded
MaxVarint == 300

\* generated strings and sequences have at most this many bytes / elements
MaxGenLen == 2

\* caller buffers of every capacity 0..MaxCap are tried
MaxCap == 8

\* at most this many bytes follow the encoding in a decoder input
MaxExtraLen == 2

\* raw decoder inputs: every byte string of at most this length
MaxRawLen == 3

\* raw decoder inputs: up to this many 0xFF bytes before a short tail
MaxRunLen == 11

---------------------------------------------------------------------------
(* Sample shapes and values: the types of the crate's tests *)

S(t) == [t |-> t, k |-> <<>>, w |-> 0]

SU(w) == [t |-> "uint", k |-> <<>>, w |-> w]

SK(t, k) == [t |-> t, k |-> k, w |-> 0]

VB(t, b) == [NoVal EXCEPT !.t = t, !.b = b]

VD(t, d) == [NoVal EXCEPT !.t = t, !.d = d]

VK(t, k) == [NoVal EXCEPT !.t = t, !.k = k]

\* the bits of a number written as hexadecimal digits, most significant first
HexBits(ds) == Flatten([i \in 1..Len(ds) |-> NatToBits(ds[Len(ds) + 1 - i], 4)])

VU(ds) == VB("uint", HexBits(ds))

VU8(n) == VB("uint", NatToBits(n, 8))

VStr(bytes) == VB("str", bytes)

VSome(v) == [NoVal EXCEPT !.t = "option", !.d = 1, !.k = <<v>>]

VNone == VD("option", 0)

VVariant(i, v) == [NoVal EXCEPT !.t = "enum", !.d = i, !.k = <<v>>]

VUnit == VD("unit", 0)

SeqOfU8(bytes) == VK("seq", [i \in 1..Len(bytes) |-> VU8(bytes[i])])

ArrayOfU8(bytes) == VK("array", [i \in 1..Len(bytes) |-> VU8(bytes[i])])

ArrayU8Shape(n) == SK("array", [i \in 1..n |-> SU(8)])

BasicU8S == SK("struct", <<SU(16), SU(8), SU(64), SU(32)>>)

BasicEnum == SK("enum", <<S("unit"), S("unit"), S("unit")>>)

EnumStruct == SK("struct", <<SU(8), SU(16)>>)

DataEnum ==
    SK("enum", <<SU(16), SU(64), SU(8), EnumStruct,
                 SK("struct", <<SU(8), SU(32)>>),
                 SK("tuple", <<SU(16), SU(8)>>)>>)

NewTypeStruct == SK("newtype", <<SU(32)>>)

PairStruct == SK("tuple_struct", <<SU(8), SU(16)>>)

TupleStruct == SK("newtype", <<SK("tuple", <<SU(8), SU(16)>>)>>)

RefStruct == SK("struct", <<S("bytes"), S("str")>>)

GenericVector(e) == SK("newtype", <<SK("seq", <<e>>)>>)

IntMap == SK("map", <<SU(8), SU(8)>>)

IntMapping == SK("newtype", <<IntMap>>)

StringMapping == SK("newtype", <<SK("map", <<S("str"), S("str")>>)>>)

ManyVarints == SK("struct", <<S("varint"), S("varint"), S("varint")>>)

Example == SK("struct", <<S("str"), SK("option", <<SU(32)>>), S("bool")>>)

\* an enum of n unit variants
UnitEnum(n) == SK("enum", [i \in 1..n |-> S("unit")])

Sample(n, s, v, exp) == [name |-> n, s |-> s, v |-> v, known |-> TRUE, exp |-> exp]

Opaque(n, s, v) == [name |-> n, s |-> s, v |-> v, known |-> FALSE, exp |-> <<>>]

Abcd1024 == [i \in 1..1024 |-> 97 + ((i - 1) % 4)]

Count1024 == [i \in 1..1024 |-> (i - 1) % 256]

\* values whose encoding the tests state byte for byte
KnownSamples == {
    Sample("unit", S("unit"), VUnit, <<>>),
    Sample("false", S("bool"), VD("bool", 0), <<0>>),
    Sample("true", S("bool"), VD("bool", 1), <<1>>),
    Sample("u8", SU(8), VU8(5), <<5>>),
    Sample("u16", SU(16), VU(<<10, 5, 12, 7>>), <<199, 165>>),
    Sample("u32", SU(32), VU(<<12, 13, 10, 11, 3, 4, 1, 2>>), <<18, 52, 171, 205>>),
    Sample("u64", SU(64),
           VU(<<1, 2, 3, 4, 5, 6, 7, 8, 9, 0, 10, 11, 12, 13, 14, 15>>),
           <<239, 205, 171, 144, 120, 86, 52, 18>>),
    Sample("BasicU8S", BasicU8S,
           VK("struct", <<VU(<<10, 11, 12, 13>>), VU(<<15, 14>>),
                          VU(<<1, 2, 3, 4, 4, 3, 2, 1, 10, 11, 12, 13, 13, 12, 11, 10>>),
                          VU(<<10, 12, 10, 12, 10, 12, 10, 12>>)>>),
           <<205, 171, 254, 186, 220, 205, 171, 33, 67, 52, 18, 172, 172, 172, 172>>),
    Sample("BasicEnum::Bim", BasicEnum, VVariant(1, VUnit), <<1>>),
    Sample("DataEnum::Bim", DataEnum, VVariant(1, VB("uint", Ones(64))),
           <<1, 255, 255, 255, 255, 255, 255, 255, 255>>),
    Sample("DataEnum::Bib", DataEnum, VVariant(0, VB("uint", Ones(16))),
           <<0, 255, 255>>),
    Sample("DataEnum::Bap", DataEnum, VVariant(2, VB("uint", Ones(8))), <<2, 255>>),
    Sample("DataEnum::Kim", DataEnum,
           VVariant(3, VK("struct", <<VU(<<15, 0>>), VU(<<10, 12, 10, 12>>)>>)),
           <<3, 240, 172, 172>>),
    Sample("DataEnum::Chi", DataEnum,
           VVariant(4, VK("struct", <<VU(<<0, 15>>),
                                      VU(<<12, 7, 12, 7, 12, 7, 12, 7>>)>>)),
           <<4, 15, 199, 199, 199, 199>>),
    Sample("DataEnum::Sho", DataEnum,
           VVariant(5, VK("tuple", <<VU(<<6, 9, 6, 9>>), VU8(7)>>)),
           <<5, 105, 105, 7>>),
    Sample("tuple2", SK("tuple", <<SU(8), SU(16)>>),
           VK("tuple", <<VU(<<1, 2>>), VU(<<12, 7, 10, 5>>)>>), <<18, 165, 199>>),
    Sample("tuple3", SK("tuple", <<SU(8), SU(32), S("str")>>),
           VK("tuple", <<VU8(1), VB("uint", NatToBits(10, 32)),
                         VStr(<<72, 101, 108, 108, 111, 33>>)>>),
           <<1, 10, 0, 0, 0, 6, 72, 101, 108, 108, 111, 33>>),
    Sample("NewTypeStruct", NewTypeStruct,
           VK("newtype", <<VB("uint", NatToBits(5, 32))>>), <<5, 0, 0, 0>>),
    Sample("PairStruct", PairStruct,
           VK("tuple_struct", <<VU(<<10, 0>>), VU(<<1, 2, 3, 4>>)>>), <<160, 52, 18>>),
    Sample("TupleStruct", TupleStruct,
           VK("newtype", <<VK("tuple", <<VU(<<10, 0>>), VU(<<1, 2, 3, 4>>)>>)>>),
           <<160, 52, 18>>),
    Sample("vec4", SK("seq", <<SU(8)>>), SeqOfU8(<<1, 2, 3, 4>>), <<4, 1, 2, 3, 4>>),
    Sample("slice8", SK("seq", <<SU(8)>>), SeqOfU8(<<1, 2, 3, 4, 5, 6, 7, 8>>),
           <<8, 1, 2, 3, 4, 5, 6, 7, 8>>),
    Sample("slice4", SK("seq", <<SU(8)>>), SeqOfU8(<<1, 0, 32, 48>>),
           <<4, 1, 0, 32, 48>>),
    Sample("array4", ArrayU8Shape(4), ArrayOfU8(<<1, 0, 32, 48>>), <<1, 0, 32, 48>>),
    Sample("array32", ArrayU8Shape(32), ArrayOfU8(Zeros(32)), Zeros(32)),
    Sample("helLO!", S("str"), VStr(<<104, 101, 108, 76, 79, 33>>),
           <<6, 104, 101, 108, 76, 79, 33>>),
    Sample("Hi!", S("str"), VStr(<<72, 105, 33>>), <<3, 72, 105, 33>>),
    Sample("abcd1024", S("str"), VStr(Abcd1024), <<128, 8>> \o Abcd1024),
    Sample("bytes1024", S("bytes"), VB("bytes", Count1024), <<128, 8>> \o Count1024),
    Sample("GenericVector", GenericVector(S("str")),
           VK("newtype", <<VK("seq", <<VStr(<<>>), VStr(<<97>>), VStr(<<98, 99>>)>>)>>),
           <<3, 0, 1, 97, 2, 98, 99>>),
    Sample("RefStruct", RefStruct,
           VK("struct", <<VB("bytes", <<1, 16, 2, 32>>),
                          VStr(<<104, 69, 108, 76, 111>>)>>),
           <<4, 1, 16, 2, 32, 5, 104, 69, 108, 76, 111>>),
    Sample("ManyVarints", ManyVarints,
           VK("struct", <<VB("varint", <<1>>), VB("varint", Ones(32)),
                          VB("varint", Trim(HexBits(<<0, 7, 12, 13>>)))>>),
           <<1, 255, 255, 255, 255, 15, 205, 15>>),
    Sample("varint1", S("varint"), VB("varint", <<1>>), <<1>>),
    Sample("usize32::MAX", S("varint"), VB("varint", Ones(32)),
           <<255, 255, 255, 255, 15>>),
    Sample("usize64::MAX", S("varint"), VB("varint", Ones(64)),
           <<255, 255, 255, 255, 255, 255, 255, 255, 255, 1>>),
    Sample("IntMap3", IntMap,
           VK("map", <<VU8(1), VU8(2), VU8(3), VU8(4), VU8(5), VU8(6)>>),
           <<3, 1, 2, 3, 4, 5, 6>>) }

\* values the tests only send through a round trip
OpaqueSamples == {
    Opaque("char a", S("char"), VD("char", 97)),
    Opaque("char a-umlaut", S("char"), VD("char", 228)),
    Opaque("char ha", S("char"), VD("char", 2361)),
    Opaque("char euro", S("char"), VD("char", 8364)),
    Opaque("char han", S("char"), VD("char", 54620)),
    Opaque("char hwair", S("char"), VD("char", 66376)),
    Opaque("char max", S("char"), VD("char", 1114111)),
    Opaque("IntMapping{}", IntMapping, VK("newtype", <<VK("map", <<>>)>>)),
    Opaque("StringMapping{}", StringMapping, VK("newtype", <<VK("map", <<>>)>>)),
    Opaque("IntMap3'", IntMap,
           VK("map", <<VU8(5), VU8(6), VU8(1), VU8(2), VU8(3), VU8(4)>>)),
    Opaque("StringMapping2", StringMapping,
           VK("newtype", <<VK("map", <<VStr(<<97>>), VStr(<<98>>),
                                       VStr(<<99, 100>>), VStr(<<101, 102>>)>>)>>)),
    Opaque("Example", Example,
           VK("struct", <<VStr(<<86, 101, 99, 32, 116, 101, 115, 116>>),
                          VSome(VU(<<0, 0, 0, 0, 1, 3, 3, 7>>)), VD("bool", 1)>>)),
    Opaque("None", SK("option", <<SU(16)>>), VNone),
    Opaque("Some(None)", SK("option", <<SK("option", <<SU(8)>>)>>), VSome(VNone)),
    Opaque("str euro", S("str"), VStr(<<226, 130, 172>>)),
    Opaque("i64 -1", [t |-> "int", k |-> <<>>, w |-> 64], VB("int", Ones(64))),
    Opaque("f32 1.0", [t |-> "float", k |-> <<>>, w |-> 32],
           VB("float", HexBits(<<3, 15, 8, 0, 0, 0, 0, 0>>))),
    Opaque("usize 2^32", S("varint"), VB("varint", Zeros(32) \o <<1>>)),
    Opaque("usize 1024", S("varint"), VB("varint", Trim(NatToBits(1024, 16)))),
    Opaque("usize 2^14", S("varint"), VB("varint", Trim(NatToBits(16384, 16)))),
    Opaque("Enum128 first", UnitEnum(128), VVariant(0, VUnit)),
    Opaque("Enum128 last", UnitEnum(128), VVariant(127, VUnit)),
    Opaque("Enum130 #127", UnitEnum(130), VVariant(127, VUnit)),
    Opaque("Enum130 #128", UnitEnum(130), VVariant(128, VUnit)),
    Opaque("Enum130 last", UnitEnum(130), VVariant(129, VUnit)),
    Opaque("Option<DataEnum>", SK("option", <<DataEnum>>),
           VSome(VVariant(5, VK("tuple", <<VB("uint", Ones(16)), VU8(0)>>)))),
    Opaque("(u16, u8)", SK("struct", <<SU(16), SU(8)>>),
           VK("struct", <<VU(<<10, 11, 12, 13>>), VU8(7)>>)),
    Opaque("seq of pairs", SK("seq", <<PairStruct>>),
           VK("seq", <<VK("tuple_struct", <<VU8(1), VU(<<0, 1, 0, 2>>)>>),
                       VK("tuple_struct", <<VU8(255), VB("uint", Ones(16))>>)>>)) }

\* the bytes generated strings, sequences and decoder inputs are made of
GenBytes == {0, 1, 127, 128, 255}

RECURSIVE SeqsUpTo(_, _)
\* every sequence over set of at most n elements
SeqsUpTo(set, n) ==
    IF n = 0 THEN {<<>>}
    ELSE LET shorter == SeqsUpTo(set, n - 1)
         IN  shorter \cup {Append(q, x) : q \in {r \in shorter : Len(r) = n - 1},
                                           x \in set}

\* generated values: every varint up to MaxVarint, every u8, every short
\* byte string and sequence of bytes
GenSamples ==
    {Opaque("varint", S("varint"), VB("varint", Trim(NatToBits(n, 16)))) :
        n \in 0..MaxVarint}
    \cup {Opaque("u8", SU(8), VU8(n)) : n \in 0..255}
    \cup {Opaque("bytes", S("bytes"), VB("bytes", q)) : q \in SeqsUpTo(GenBytes, MaxGenLen)}
    \cup {Opaque("str", S("str"), VStr(q)) : q \in SeqsUpTo({0, 97, 127}, MaxGenLen)}
    \cup {Opaque("seq", SK("seq", <<SU(8)>>), SeqOfU8(q)) :
            q \in SeqsUpTo(GenBytes, MaxGenLen)}
    \cup {Opaque("array", ArrayU8Shape(Len(q)), ArrayOfU8(q)) :
            q \in SeqsUpTo(GenBytes, MaxGenLen)}

Samples == KnownSamples \cup OpaqueSamples \cup GenSamples

RECURSIVE FitsPlatform(_, _)
\* every usize inside the value exists on a platform of w bits
FitsPlatform(v, w) ==
    /\ v.t = "varint" => Len(v.b) <= w
    /\ \A i \in 1..Len(v.k) : FitsPlatform(v.k[i], w)

\* the shapes raw inputs are decoded as
RawShapes ==
    {S("unit"), S("bool"), SU(8), SU(16), SU(32), S("char"), S("varint"), S("str"),
     S("bytes"), SK("option", <<SU(8)>>), SK("seq", <<SU(8)>>), IntMap,
     SK("seq", <<S("str")>>), PairStruct, NewTypeStruct, BasicEnum, DataEnum}

\* four-byte inputs around the edges of the Unicode scalar values: 'a', U+00E4,
\* U+D7FF, the surrogates U+D800 and U+DFFF, U+E000, U+10348, U+10FFFF,
\* 0x110000, 0x01000000 and 0xFFFFFF61
CharInputs ==
    {<<97, 0, 0, 0>>, <<228, 0, 0, 0>>, <<255, 215, 0, 0>>, <<0, 216, 0, 0>>,
     <<255, 223, 0, 0>>, <<0, 224, 0, 0>>, <<72, 3, 1, 0>>, <<255, 255, 16, 0>>,
     <<0, 0, 17, 0>>, <<0, 0, 0, 1>>, <<97, 255, 255, 255>>}

\* length-prefixed inputs with multi-byte UTF-8: U+00E4, U+20AC, U+D55C and
\* U+10348 well formed; then a lead byte without its continuation, a stray
\* continuation, the overlong forms C0 80 and E0 80 80, the surrogate ED A0 80,
\* F4 90 80 80 (above U+10FFFF), the lead byte F8, and a sequence cut short
Utf8Inputs ==
    {<<2, 195, 164>>, <<3, 226, 130, 172>>, <<3, 237, 149, 156>>,
     <<4, 240, 144, 141, 136>>, <<3, 97, 195, 164>>,
     <<2, 195, 40>>, <<2, 97, 164>>, <<2, 192, 128>>, <<3, 224, 128, 128>>,
     <<3, 237, 160, 128>>, <<4, 244, 144, 128, 128>>, <<4, 248, 136, 128, 128>>,
     <<2, 226, 130>>, <<3, 240, 144, 141>>, <<1, 195>>}

\* raw decoder inputs: every short byte string, and runs of 0xFF bytes (varint
\* continuation bytes) followed by at most one more byte
RawInputs ==
    SeqsUpTo(GenBytes \cup {2, 3, 15, 16}, MaxRawLen)
    \cup {[i \in 1..n |-> 255] \o t :
            n \in 1..MaxRunLen, t \in SeqsUpTo({0, 1, 15, 16, 127}, 1)}
    \cup {c \o t : c \in CharInputs \cup Utf8Inputs, t \in SeqsUpTo({0, 1}, 1)}

Extras == SeqsUpTo(GenBytes, MaxExtraLen)

\* a SliceOutput used directly: buffers of up to MaxSinkCap bytes, up to
\* MaxCalls calls, try_extend with up to MaxSinkData bytes
MaxSinkCap == 3

MaxCalls == 4

MaxSinkData == 2

SinkBytes == {1, 2}

---------------------------------------------------------------------------
(* The caller: to_vec, then to_slice or a decode of the encoding; or a    *)
(* decode of raw bytes.  One step of an encode is one call on the sink.   *)

Init ==
    /\ usizeBits \in {32, 64}
    /\ name = ""
    /\ shape = S("unit")
    /\ value = NoVal
    /\ pc = "idle"
    /\ ops = <<>>
    /\ vec = <<>>
    /\ buf = <<>>
    /\ idx = 0
    /\ vecRes = Pending
    /\ sliceRes = Pending
    /\ input = <<>>
    /\ extra = <<>>
    /\ deRes = DePending
    /\ cursor = <<>>
    /\ todo = <<>>
    /\ walkErr = "none"
    /\ call = NoCall
    /\ calls = 0

\* to_vec, lines 73-76: a Serializer over VecOutput::new(), value.serialize
ToVecStart ==
    /\ pc = "idle"
    /\ \E x \in Samples :
        /\ FitsPlatform(x.v, usizeBits)
        /\ name' = x.name
        /\ shape' = x.s
        /\ value' = x.v
        /\ ops' = SerOps(x.s, x.v, usizeBits)
    /\ vec' = VecOutput_new
    /\ pc' = "to_vec"
    /\ UNCHANGED <<deVars, sinkVars>>
    /\ UNCHANGED <<usizeBits, buf, idx, vecRes, sliceRes, input, extra, deRes>>

\* one VecOutput::try_push of the serializer; Err ends to_vec (line 76)
VecTryPush ==
    /\ pc = "to_vec"
    /\ ops # <<>>
    /\ Head(ops).op = "push"
    /\ LET r == VecOutput_try_push(vec, Head(ops).data[1])
       IN  IF r.ok
           THEN /\ vec' = r.out
                /\ ops' = Tail(ops)
                /\ UNCHANGED <<pc, vecRes>>
           ELSE /\ vecRes' = SerErr("SerializeBufferFull")
                /\ pc' = "vec_done"
                /\ UNCHANGED <<vec, ops>>
    /\ UNCHANGED <<deVars, sinkVars>>
    /\ UNCHANGED <<usizeBits, name, shape, value, buf, idx, sliceRes, input, extra, deRes>>

\* one VecOutput::try_extend of the serializer
VecTryExtend ==
    /\ pc = "to_vec"
    /\ ops # <<>>
    /\ Head(ops).op = "extend"
    /\ LET r == VecOutput_try_extend(vec, Head(ops).data)
       IN  IF r.ok
           THEN /\ vec' = r.out
                /\ ops' = Tail(ops)
                /\ UNCHANGED <<pc, vecRes>>
           ELSE /\ vecRes' = SerErr("SerializeBufferFull")
                /\ pc' = "vec_done"
                /\ UNCHANGED <<vec, ops>>
    /\ UNCHANGED <<deVars, sinkVars>>
    /\ UNCHANGED <<usizeBits, name, shape, value, buf, idx, sliceRes, input, extra, deRes>>

\* to_vec, lines 77-80: release the sink
ToVecRelease ==
    /\ pc = "to_vec"
    /\ ops = <<>>
    /\ LET r == VecOutput_release(vec)
       IN  vecRes' = IF r.ok THEN SerOk(r.ret) ELSE SerErr("SerializeBufferFull")
    /\ pc' = "vec_done"
    /\ UNCHANGED <<deVars, sinkVars>>
    /\ UNCHANGED <<usizeBits, name, shape, value, ops, vec, buf, idx, sliceRes,
                   input, extra, deRes>>

\* the capacities tried for a value whose encoding has n bytes
Caps(n) == (0..MaxCap) \cup {c \in {n - 1, n, n + 1} : c >= 0}

\* to_slice, lines 46-49: a Serializer over SliceOutput::new(buf)
ToSliceStart ==
    /\ pc = "vec_done"
    /\ vecRes.ok
    /\ \E cap \in Caps(Len(vecRes.ret)), fill \in {0, 170} :
        LET out == SliceOutput_new([i \in 1..cap |-> fill])
        IN  /\ buf' = out.buf
            /\ idx' = out.idx
    /\ ops' = SerOps(shape, value, usizeBits)
    /\ pc' = "to_slice"
    /\ UNCHANGED <<deVars, sinkVars>>
    /\ UNCHANGED <<usizeBits, name, shape, value, vec, vecRes, sliceRes, input,
                   extra, deRes>>

\* one SliceOutput::try_push of the serializer; Err ends to_slice (line 49)
SliceTryPush ==
    /\ pc = "to_slice"
    /\ ops # <<>>
    /\ Head(ops).op = "push"
    /\ LET r == SliceOutput_try_push([buf |-> buf, idx |-> idx], Head(ops).data[1])
       IN  IF r.ok
           THEN /\ buf' = r.out.buf
                /\ idx' = r.out.idx
                /\ ops' = Tail(ops)
                /\ UNCHANGED <<pc, sliceRes>>
           ELSE /\ buf' = r.out.buf
                /\ idx' = r.out.idx
                /\ sliceRes' = SerErr("SerializeBufferFull")
                /\ pc' = "slice_done"
                /\ UNCHANGED ops
    /\ UNCHANGED <<deVars, sinkVars>>
    /\ UNCHANGED <<usizeBits, name, shape, value, vec, vecRes, input, extra, deRes>>

\* one SliceOutput::try_extend of the serializer
SliceTryExtend ==
    /\ pc = "to_slice"
    /\ ops # <<>>
    /\ Head(ops).op = "extend"
    /\ LET r == SliceOutput_try_extend([buf |-> buf, idx |-> idx], Head(ops).data)
       IN  IF r.ok
           THEN /\ buf' = r.out.buf
                /\ idx' = r.out.idx
                /\ ops' = Tail(ops)
                /\ UNCHANGED <<pc, sliceRes>>
           ELSE /\ buf' = r.out.buf
                /\ idx' = r.out.idx
                /\ sliceRes' = SerErr("SerializeBufferFull")
                /\ pc' = "slice_done"
                /\ UNCHANGED ops
    /\ UNCHANGED <<deVars, sinkVars>>
    /\ UNCHANGED <<usizeBits, name, shape, value, vec, vecRes, input, extra, deRes>>

\* to_slice, lines 50-53: release the sink
ToSliceRelease ==
    /\ pc = "to_slice"
    /\ ops = <<>>
    /\ LET r == SliceOutput_release([buf |-> buf, idx |-> idx])
       IN  sliceRes' = IF r.ok THEN SerOk(r.ret) ELSE SerErr("SerializeBufferFull")
    /\ pc' = "slice_done"
    /\ UNCHANGED <<deVars, sinkVars>>
    /\ UNCHANGED <<usizeBits, name, shape, value, ops, vec, buf, idx, vecRes,
                   input, extra, deRes>>

\* from_bytes on the encoding followed by extra bytes
FromBytes ==
    /\ pc = "vec_done"
    /\ vecRes.ok
    /\ \E e \in Extras :
        /\ extra' = e
        /\ input' = vecRes.ret \o e
        /\ deRes' = from_bytes(shape, vecRes.ret \o e, usizeBits)
    /\ pc' = "from_bytes_done"
    /\ UNCHANGED <<deVars, sinkVars>>
    /\ UNCHANGED <<usizeBits, name, shape, value, ops, vec, buf, idx, vecRes, sliceRes>>

\* take_from_bytes on the encoding followed by extra bytes
TakeFromBytes ==
    /\ pc = "vec_done"
    /\ vecRes.ok
    /\ \E e \in Extras :
        /\ extra' = e
        /\ input' = vecRes.ret \o e
        /\ deRes' = take_from_bytes(shape, vecRes.ret \o e, usizeBits)
    /\ pc' = "take_done"
    /\ UNCHANGED <<deVars, sinkVars>>
    /\ UNCHANGED <<usizeBits, name, shape, value, ops, vec, buf, idx, vecRes, sliceRes>>

\* from_bytes on the whole buffer after to_slice (lib.rs, lines 31-33)
FromBuffer ==
    /\ pc = "slice_done"
    /\ sliceRes.ok
    /\ extra' = After(buf, idx)
    /\ input' = buf
    /\ deRes' = from_bytes(shape, buf, usizeBits)
    /\ pc' = "from_bytes_done"
    /\ UNCHANGED <<deVars, sinkVars>>
    /\ UNCHANGED <<usizeBits, name, shape, value, ops, vec, buf, idx, vecRes, sliceRes>>

\* take_from_bytes / from_bytes on bytes that no encoder produced:
\* Deserializer::from_bytes(s), the cursor is the whole slice
DeStart ==
    /\ pc = "idle"
    /\ \E s \in RawShapes, raw \in RawInputs :
        /\ shape' = s
        /\ input' = raw
        /\ cursor' = raw
        /\ todo' = <<s>>
    /\ walkErr' = "none"
    /\ name' = "raw"
    /\ pc' = "de_walk"
    /\ UNCHANGED sinkVars
    /\ UNCHANGED <<usizeBits, value, ops, vec, buf, idx, vecRes, sliceRes, extra, deRes>>

\* T::deserialize(&mut deserializer): one read of the deserializer
DeStep ==
    /\ pc = "de_walk"
    /\ walkErr = "none"
    /\ todo # <<>>
    /\ LET r == WalkStep(Head(todo), cursor, usizeBits)
       IN  /\ walkErr' = r.err
           /\ cursor' = r.cursor
           /\ todo' = IF r.err = "none" THEN r.push \o Tail(todo) ELSE todo
    /\ UNCHANGED sinkVars
    /\ UNCHANGED <<usizeBits, name, shape, value, pc, ops, vec, buf, idx, vecRes,
                   sliceRes, input, extra, deRes>>

\* take_from_bytes returns: the error, or the value and deserializer.input
TakeRaw ==
    /\ pc = "de_walk"
    /\ walkErr # "none" \/ todo = <<>>
    /\ deRes' = take_from_bytes(shape, input, usizeBits)
    /\ pc' = "raw_done"
    /\ UNCHANGED <<deVars, sinkVars>>
    /\ UNCHANGED <<usizeBits, name, shape, value, ops, vec, buf, idx, vecRes,
                   sliceRes, input, extra>>

\* from_bytes returns: the error, or the value alone
FromRaw ==
    /\ pc = "de_walk"
    /\ walkErr # "none" \/ todo = <<>>
    /\ deRes' = from_bytes(shape, input, usizeBits)
    /\ pc' = "from_raw_done"
    /\ UNCHANGED <<deVars, sinkVars>>
    /\ UNCHANGED <<usizeBits, name, shape, value, ops, vec, buf, idx, vecRes,
                   sliceRes, input, extra>>

\* SliceOutput::new(buf) by a caller that drives the sink itself
SinkNew ==
    /\ pc = "idle"
    /\ \E cap \in 0..MaxSinkCap, fill \in {0, 170} :
        LET out == SliceOutput_new([i \in 1..cap |-> fill])
        IN  /\ buf' = out.buf
            /\ idx' = out.idx
    /\ call' = NoCall
    /\ calls' = 0
    /\ name' = "sink"
    /\ pc' = "sink"
    /\ UNCHANGED deVars
    /\ UNCHANGED <<usizeBits, shape, value, ops, vec, vecRes, sliceRes, input,
                   extra, deRes>>

\* try_push on the sink, after whatever the calls before returned
SinkTryPush ==
    /\ pc = "sink"
    /\ calls < MaxCalls
    /\ \E b \in SinkBytes :
        LET r == SliceOutput_try_push([buf |-> buf, idx |-> idx], b)
        IN  /\ buf' = r.out.buf
            /\ idx' = r.out.idx
            /\ call' = [op |-> "push", data |-> <<b>>, ok |-> r.ok]
    /\ calls' = calls + 1
    /\ UNCHANGED deVars
    /\ UNCHANGED <<usizeBits, name, shape, value, pc, ops, vec, vecRes, sliceRes,
                   input, extra, deRes>>

\* try_extend on the sink
SinkTryExtend ==
    /\ pc = "sink"
    /\ calls < MaxCalls
    /\ \E d \in SeqsUpTo(SinkBytes, MaxSinkData) :
        LET r == SliceOutput_try_extend([buf |-> buf, idx |-> idx], d)
        IN  /\ buf' = r.out.buf
            /\ idx' = r.out.idx
            /\ call' = [op |-> "extend", data |-> d, ok |-> r.ok]
    /\ calls' = calls + 1
    /\ UNCHANGED deVars
    /\ UNCHANGED <<usizeBits, name, shape, value, pc, ops, vec, vecRes, sliceRes,
                   input, extra, deRes>>

\* sink[i]: a read of the buffer; a position past the buffer panics
SinkIndex ==
    /\ pc = "sink"
    /\ calls < MaxCalls
    /\ \E i \in 0..Len(buf) :
        IF i < Len(buf)
        THEN /\ call' = [op |-> "index",
                         data |-> <<i, SliceOutput_index([buf |-> buf, idx |-> idx], i)>>,
                         ok |-> TRUE]
             /\ pc' = pc
        ELSE /\ call' = [op |-> "index", data |-> <<i>>, ok |-> FALSE]
             /\ pc' = "sink_panic"
    /\ calls' = calls + 1
    /\ UNCHANGED deVars
    /\ UNCHANGED <<usizeBits, name, shape, value, ops, vec, buf, idx, vecRes,
                   sliceRes, input, extra, deRes>>

\* sink[i] = b: a store anywhere in the buffer; a position past it panics
SinkIndexMut ==
    /\ pc = "sink"
    /\ calls < MaxCalls
    /\ \E i \in 0..Len(buf), b \in SinkBytes :
        IF i < Len(buf)
        THEN LET out == SliceOutput_index_mut([buf |-> buf, idx |-> idx], i, b)
             IN  /\ buf' = out.buf
                 /\ idx' = out.idx
                 /\ call' = [op |-> "index_mut", data |-> <<i, b>>, ok |-> TRUE]
                 /\ pc' = pc
        ELSE /\ call' = [op |-> "index_mut", data |-> <<i, b>>, ok |-> FALSE]
             /\ pc' = "sink_panic"
             /\ UNCHANGED <<buf, idx>>
    /\ calls' = calls + 1
    /\ UNCHANGED deVars
    /\ UNCHANGED <<usizeBits, name, shape, value, ops, vec, vecRes, sliceRes,
                   input, extra, deRes>>

\* release of the sink
SinkRelease ==
    /\ pc = "sink"
    /\ LET r == SliceOutput_release([buf |-> buf, idx |-> idx])
       IN  sliceRes' = IF r.ok THEN SerOk(r.ret) ELSE SerErr("SerializeBufferFull")
    /\ pc' = "sink_done"
    /\ UNCHANGED <<deVars, sinkVars>>
    /\ UNCHANGED <<usizeBits, name, shape, value, ops, vec, buf, idx, vecRes,
                   input, extra, deRes>>

Next ==
    \/ ToVecStart
    \/ VecTryPush
    \/ VecTryExtend
    \/ ToVecRelease
    \/ ToSliceStart
    \/ SliceTryPush
    \/ SliceTryExtend
    \/ ToSliceRelease
    \/ FromBytes
    \/ TakeFromBytes
    \/ FromBuffer
    \/ DeStart
    \/ DeStep
    \/ TakeRaw
    \/ FromRaw
    \/ SinkNew
    \/ SinkTryPush
    \/ SinkTryExtend
    \/ SinkIndex
    \/ SinkIndexMut
    \/ SinkRelease

Spec == Init /\ [][Next]_vars

---------------------------------------------------------------------------
(* Properties *)

\* the encoding the serializer's rules give v of shape s, sink aside
Encoding(s, v) == OpsBytes(SerOps(s, v, usizeBits))

\* C1: round trip.  to_vec succeeds on every value, and from_bytes on exactly
\* the bytes to_vec returned yields Ok of a value equal to the original.
C1_RoundTrip ==
    /\ pc \in {"vec_done", "from_bytes_done", "take_done", "to_slice", "slice_done"}
        => vecRes.ok
    /\ (pc = "from_bytes_done" /\ input = vecRes.ret)
        => (deRes.ok /\ ValEq(deRes.val, value))

\* a struct-variant enum value has made the round trip
C1_Witness ==
    /\ pc = "from_bytes_done"
    /\ input = vecRes.ret
    /\ name = "DataEnum::Chi"
    /\ deRes.ok
    /\ deRes.val.d = 4
    /\ Len(input) = 6

\* C2: prefix decode.  On encode(v) ++ extra, take_from_bytes returns v and a
\* remainder equal to extra, and from_bytes returns v; neither fails because of
\* the trailing bytes.
C2_PrefixDecode ==
    /\ pc = "take_done"
        => (deRes.ok /\ ValEq(deRes.val, value) /\ deRes.rest = extra)
    /\ pc = "from_bytes_done"
        => (deRes.ok /\ ValEq(deRes.val, value))
    /\ pc \in {"take_done", "from_bytes_done"}
        => input = vecRes.ret \o extra

\* take_from_bytes has returned a sequence and two trailing bytes
C2_Witness ==
    /\ pc = "take_done"
    /\ shape.t = "seq"
    /\ Len(value.k) = 2
    /\ extra = <<128, 255>>
    /\ deRes.ok
    /\ deRes.rest = <<128, 255>>

\* C3: bounded-sink overflow.  With n the number of bytes the encoding needs
\* and c the capacity of the caller's buffer, to_slice fails with
\* SerializeBufferFull when c < n and returns a slice of exactly n bytes when
\* c >= n.
C3_BufferFull ==
    pc = "slice_done" =>
        LET n == Len(vecRes.ret)
            c == Len(buf)
        IN  /\ c < n => (~sliceRes.ok /\ sliceRes.err = "SerializeBufferFull")
            /\ c >= n => (sliceRes.ok /\ Len(sliceRes.ret[1]) = n)

\* to_slice has failed after writing part of the value into a short buffer
C3_Witness ==
    /\ pc = "slice_done"
    /\ ~sliceRes.ok
    /\ sliceRes.err = "SerializeBufferFull"
    /\ idx > 0
    /\ Len(buf) = Len(vecRes.ret) - 1

\* C4: on success to_slice hands back two slices, the written prefix
\* buf[0..idx] and the unused remainder buf[idx..].
C4_ReturnsUnused ==
    (pc = "slice_done" /\ sliceRes.ok) =>
        sliceRes.ret = <<SubSeq(buf, 1, idx), SubSeq(buf, idx + 1, Len(buf))>>

\* C5: sink independence.  Whenever to_slice succeeds, the slice it returns is
\* byte for byte the Vec that to_vec returned for the same value.
C5_SinkIndependence ==
    (pc = "slice_done" /\ sliceRes.ok) => sliceRes.ret[1] = vecRes.ret

\* both sinks have encoded a struct of string, option and bool
C5_Witness ==
    /\ pc = "slice_done"
    /\ sliceRes.ok
    /\ name = "Example"
    /\ Len(buf) > idx
    /\ Len(sliceRes.ret[1]) = 15

\* the little-endian base-128 form of a number: its 7-bit groups from the
\* least significant, the high bit set on every byte but the last
RefVarint(bits) ==
    LET t == Trim(bits)
        g == IF t = <<>> THEN 1 ELSE (Len(t) + 6) \div 7
        p == Resize(t, 7 * g)
    IN  [i \in 1..g |->
            BitsToNat(SubSeq(p, 7 * (i - 1) + 1, 7 * i)) + (IF i < g THEN 128 ELSE 0)]

\* the bytes the tests state for the value under test, when they state any
MatchesTest(bytes) == \A x \in KnownSamples : x.name = name => bytes = x.exp

\* C6: the varint of every unsigned value is its little-endian base-128 form:
\* 0 is the single byte 0, 1024 is [0x80, 0x08], the last byte has a clear high
\* bit and is no redundant zero group, and usize::MAX takes the maximum count of
\* bytes (5 ending 0x0F on 32 bits, 10 ending 0x01 on 64 bits).
C6_VarintEncoding ==
    (pc = "vec_done" /\ shape.t = "varint") =>
        LET e == vecRes.ret
        IN  /\ e = RefVarint(value.b)
            /\ Len(e) >= 1 /\ Len(e) <= varint_usize_max(usizeBits)
            /\ e[Len(e)] < 128
            /\ \A i \in 1..(Len(e) - 1) : e[i] >= 128
            /\ Len(e) > 1 => e[Len(e)] # 0
            /\ value.b = <<>> => e = <<0>>
            /\ value.b = Trim(NatToBits(1024, 16)) => e = <<128, 8>>
            /\ value.b = Ones(usizeBits) =>
                    /\ Len(e) = varint_usize_max(usizeBits)
                    /\ e[Len(e)] = (IF usizeBits = 32 THEN 15 ELSE 1)
                    /\ Len(e) = (IF usizeBits = 32 THEN 5 ELSE 10)
            /\ MatchesTest(e)

\* usize::MAX of a 64-bit platform has been encoded into ten bytes
C6_Witness ==
    /\ pc = "vec_done"
    /\ shape.t = "varint"
    /\ usizeBits = 64
    /\ value.b = Ones(64)
    /\ Len(vecRes.ret) = 10

\* shapes whose encoding starts with a varint
VarintFirst == {"varint", "str", "bytes", "seq", "map", "enum"}

AllContinue(bytes) == \A i \in 1..Len(bytes) : bytes[i] >= 128

\* C7: a truncated varint is DeserializeBadVarint.  When a length or an enum
\* discriminant is expected and every remaining byte has its continuation bit
\* set (the empty remainder included), the decode fails with that error.
C7_TruncatedVarint ==
    pc = "raw_done" =>
        /\ (shape.t \in VarintFirst /\ AllContinue(input))
            => (~deRes.ok /\ deRes.err = "DeserializeBadVarint")
        /\ (/\ shape = SK("seq", <<S("str")>>)
            /\ Len(input) >= 1
            /\ input[1] \in 1..127
            /\ AllContinue(Tail(input)))
            => (~deRes.ok /\ deRes.err = "DeserializeBadVarint")

\* a string whose length prefix never terminates has been refused
C7_Witness ==
    /\ pc = "raw_done"
    /\ shape.t = "str"
    /\ input = <<255, 255>>
    /\ ~deRes.ok
    /\ deRes.err = "DeserializeBadVarint"

\* C8: varint decoding never truncates.  An accepted varint decodes to exactly
\* the integer its 7-bit groups denote, and an encoding whose denoted value does
\* not fit the platform's usize is refused with DeserializeBadVarint.
C8_NoSilentTruncation ==
    (pc = "raw_done" /\ shape.t = "varint") =>
        LET e == varint_end(input, 1, Len(input))
            denoted == Trim(Groups(Taken(input, e)))
        IN  /\ deRes.ok => (e > 0 /\ Trim(deRes.val.b) = denoted)
            /\ (e > 0 /\ Len(denoted) > usizeBits)
                => (~deRes.ok /\ deRes.err = "DeserializeBadVarint")

\* the number of bytes, elements or entries of a length-prefixed value
Count(v) ==
    IF v.t \in {"str", "bytes"} THEN Len(v.b)
    ELSE IF v.t = "map" THEN Len(v.k) \div 2
    ELSE Len(v.k)

\* the component shapes of a value of shape s
Components(s, v) ==
    IF s.t = "seq" THEN SeqShapes(s, Len(v.k))
    ELSE IF s.t = "map" THEN MapShapes(s, Len(v.k) \div 2)
    ELSE s.k

\* the encodings of the components of v, one after the other
Payload(s, v) ==
    IF s.t \in {"str", "bytes"} THEN v.b
    ELSE Flatten([i \in 1..Len(v.k) |-> Encoding(Components(s, v)[i], v.k[i])])

\* C9: length prefix.  The encoding of a str, byte slice, sequence or map is a
\* varint that decodes to its number of bytes, elements or entries, followed
\* at once by the payload in order; 1024 bytes encode to 1026 bytes starting
\* [0x80, 0x08], and [0x00] decodes to the empty map.
C9_LengthPrefix ==
    /\ (pc = "vec_done" /\ shape.t \in {"str", "bytes", "seq", "map"}) =>
        LET r == try_take_varint(vecRes.ret, usizeBits)
        IN  /\ r.ok
            /\ SatNat(r.n) = Count(value)
            /\ r.rest = Payload(shape, value)
            /\ Count(value) = 1024 =>
                    (Len(vecRes.ret) = 1026 /\ SubSeq(vecRes.ret, 1, 2) = <<128, 8>>)
            /\ MatchesTest(vecRes.ret)
    /\ (pc = "raw_done" /\ shape.t = "map" /\ input = <<0>>) =>
        (deRes.ok /\ deRes.val.t = "map" /\ deRes.val.k = <<>> /\ deRes.rest = <<>>)

\* a map of three entries has been encoded behind its count
C9_Witness ==
    /\ pc = "vec_done"
    /\ shape.t = "map"
    /\ Count(value) = 3
    /\ vecRes.ret[1] = 3
    /\ Len(vecRes.ret) = 7

RECURSIVE StaticSize(_)
\* the byte length a shape fixes on its own, -1 when it has none
StaticSize(s) ==
    CASE s.t = "unit" -> 0
      [] s.t = "bool" -> 1
      [] s.t \in FixedWidth -> s.w \div 8
      [] s.t = "char" -> 4
      [] s.t \in FixedArity \cup {"newtype"} ->
            IF \E i \in 1..Len(s.k) : StaticSize(s.k[i]) < 0 THEN -1
            ELSE LET sum[i \in 0..Len(s.k)] ==
                        IF i = 0 THEN 0 ELSE sum[i - 1] + StaticSize(s.k[i])
                 IN  sum[Len(s.k)]
      [] OTHER -> -1

\* C10: fixed-arity shapes carry no length prefix and no names.  An array,
\* tuple, tuple struct or struct encodes as its elements in declared order and
\* a newtype struct as its inner value, so a shape of fixed-size parts fixes the
\* byte length; [u8; N] takes N bytes where the slice takes varint(N) more.
C10_NoPrefix ==
    (pc = "vec_done" /\ shape.t \in FixedArity \cup {"newtype"}) =>
        /\ vecRes.ret = Payload(shape, value)
        /\ StaticSize(shape) >= 0 => Len(vecRes.ret) = StaticSize(shape)
        /\ shape = ArrayU8Shape(Len(value.k)) =>
            /\ Len(vecRes.ret) = Len(value.k)
            /\ VarintOfNat(Len(value.k), usizeBits) \o vecRes.ret
                = Encoding(SK("seq", <<SU(8)>>), [value EXCEPT !.t = "seq"])
        /\ MatchesTest(vecRes.ret)

\* the struct of u16, u8, u64 and u32 has been encoded into fifteen bytes
C10_Witness ==
    /\ pc = "vec_done"
    /\ name = "BasicU8S"
    /\ Len(vecRes.ret) = 15
    /\ vecRes.ret[3] = 254

\* C11: enum encoding.  An enum value is the varint of its zero-based variant
\* index followed by the payload under the rule of the payload's own shape
\* (nothing for a unit variant, the inner value for a newtype variant, the
\* fields in order for tuple and struct variants); with at most 128 variants
\* the discriminant is exactly one byte.
C11_EnumEncoding ==
    (pc = "vec_done" /\ shape.t = "enum") =>
        LET e == vecRes.ret
            disc == RefVarint(NatToBits(value.d, 16))
            payload == shape.k[value.d + 1]
        IN  /\ e = disc \o Encoding(payload, value.k[1])
            /\ payload.t = "unit" => e = disc
            /\ payload.t \in FixedArity => e = disc \o Payload(payload, value.k[1])
            /\ Len(shape.k) <= 128 => (Len(disc) = 1 /\ e[1] = value.d)
            /\ value.d >= 128 => (Len(disc) = 2 /\ e[1] = value.d /\ e[2] = 1)
            /\ MatchesTest(e)

\* the tuple variant, the sixth of its enum, has been encoded
C11_Witness ==
    /\ pc = "vec_done"
    /\ name = "DataEnum::Sho"
    /\ value.d = 5
    /\ vecRes.ret = <<5, 105, 105, 7>>

\* the u32 in four little-endian bytes is a Unicode scalar value: at most
\* 0x10FFFF and outside the surrogates 0xD800..0xDFFF
IsScalar(bytes) ==
    LET bits == from_le_bytes(bytes)
        low == BitsToNat(SubSeq(bits, 1, 21))
    IN  /\ IsZero(SubSeq(bits, 22, 32))
        /\ low <= 1114111
        /\ ~(IsZero(SubSeq(bits, 17, 21)) /\ SubSeq(bits, 12, 16) = <<1, 1, 0, 1, 1>>)

\* the UTF-8 form of a code point
Utf8Encode(cp) ==
    IF cp < 128 THEN <<cp>>
    ELSE IF cp < 2048 THEN <<192 + cp \div 64, 128 + (cp % 64)>>
    ELSE IF cp < 65536
         THEN <<224 + cp \div 4096, 128 + ((cp \div 64) % 64), 128 + (cp % 64)>>
    ELSE <<240 + cp \div 262144, 128 + ((cp \div 4096) % 64),
           128 + ((cp \div 64) % 64), 128 + (cp % 64)>>

\* the code point n bytes would spell, read as lead byte and continuations
Utf8CodePoint(bs) ==
    LET n == Len(bs)
        lead == IF n = 1 THEN bs[1] % 128
                ELSE IF n = 2 THEN bs[1] % 32
                ELSE IF n = 3 THEN bs[1] % 16 ELSE bs[1] % 8
        tail[i \in 1..n] == IF i = 1 THEN lead ELSE 64 * tail[i - 1] + (bs[i] % 64)
    IN  tail[n]

RECURSIVE IsUtf8(_)
\* bs is the concatenation of the UTF-8 forms of Unicode scalar values
IsUtf8(bs) ==
    \/ bs = <<>>
    \/ \E n \in 1..4 :
        /\ n <= Len(bs)
        /\ LET cp == Utf8CodePoint(SubSeq(bs, 1, n))
           IN  /\ cp <= 1114111 /\ ~(cp >= 55296 /\ cp <= 57343)
               /\ Utf8Encode(cp) = SubSeq(bs, 1, n)
        /\ IsUtf8(SubSeq(bs, n + 1, Len(bs)))

RECURSIVE InDomain(_, _)
\* v is a value of the type of shape s
InDomain(s, v) ==
    /\ v.t = s.t
    /\ s.t = "bool" => v.d \in {0, 1}
    /\ s.t = "char" => v.d \in 0..1114111 /\ ~(v.d >= 55296 /\ v.d <= 57343)
    /\ s.t \in FixedWidth => Len(v.b) = s.w
    /\ s.t = "str" => ((\A i \in 1..Len(v.b) : v.b[i] < 128) \/ IsUtf8(v.b))
    /\ s.t = "option" => v.d \in {0, 1} /\ Len(v.k) = v.d
    /\ s.t = "enum" => v.d \in 0..(Len(s.k) - 1) /\ Len(v.k) = 1
    /\ s.t \in FixedArity \cup {"newtype"} => Len(v.k) = Len(s.k)
    /\ s.t = "map" => Len(v.k) % 2 = 0
    /\ \A i \in 1..Len(v.k) :
          InDomain(IF s.t = "enum" THEN s.k[v.d + 1] ELSE Components(s, v)[i], v.k[i])

\* C13: value-domain validation on decode.  A bool byte other than 0 or 1
\* fails with DeserializeBadBool, an Option tag other than 0 or 1 with
\* DeserializeBadOption, four char bytes that are no Unicode scalar value with
\* DeserializeBadChar, a length-prefixed str whose bytes are not valid UTF-8
\* with DeserializeBadUtf8; every value a decode returns is in the domain of
\* its shape.
C13_ValueDomain ==
    /\ pc = "raw_done" =>
        LET len == try_take_varint(input, usizeBits)
            fails(e) == ~deRes.ok /\ deRes.err = e /\ deRes.val = NoVal
        IN  /\ (shape.t = "bool" /\ input # <<>> /\ input[1] \notin {0, 1})
                    => fails("DeserializeBadBool")
            /\ (shape.t = "option" /\ input # <<>> /\ input[1] \notin {0, 1})
                    => fails("DeserializeBadOption")
            /\ (shape.t = "char" /\ Len(input) >= 4 /\ ~IsScalar(SubSeq(input, 1, 4)))
                    => fails("DeserializeBadChar")
            /\ (shape.t = "char" /\ Len(input) >= 4 /\ IsScalar(SubSeq(input, 1, 4)))
                    => deRes.ok
            /\ (/\ shape.t = "str" /\ len.ok
                /\ ~(\E j \in 21..Len(len.n) : len.n[j] = 1)
                /\ BitsToNat(SubSeq(len.n, 1, 20)) <= Len(len.rest))
                    => LET p == SubSeq(len.rest, 1, BitsToNat(SubSeq(len.n, 1, 20)))
                       IN  IF IsUtf8(p) THEN deRes.ok /\ deRes.val.b = p
                           ELSE fails("DeserializeBadUtf8")
    /\ (pc \in {"raw_done", "take_done", "from_bytes_done"} /\ deRes.ok)
            => InDomain(shape, deRes.val)

\* a str whose three payload bytes spell the surrogate U+D800 has been refused
C13_Witness ==
    /\ pc = "raw_done"
    /\ shape.t = "str"
    /\ input = <<3, 237, 160, 128>>
    /\ deRes.err = "DeserializeBadUtf8"

\* a is what is left of b after some bytes in front were taken
IsSuffix(a, b) == Len(a) <= Len(b) /\ a = SubSeq(b, Len(b) - Len(a) + 1, Len(b))

\* the number of bytes the read for shape s takes in one piece: a fixed-width
\* number, a char, a bool or Option tag byte, a str or bytes payload
Needs(s) ==
    CASE s.t \in {"bool", "option"} -> 1
      [] s.t \in FixedWidth -> s.w \div 8
      [] s.t = "char" -> 4
      [] s.t \in {"str_payload", "bytes_payload"} -> s.w
      [] OTHER -> 0

\* the cursor after every read, and after the call, is a suffix of the input
C14_CursorIsSuffix ==
    /\ pc \in {"de_walk", "raw_done", "from_raw_done"} => IsSuffix(cursor, input)
    /\ (pc \in {"raw_done", "take_done"} /\ deRes.ok) => IsSuffix(deRes.rest, input)
    /\ pc \in {"raw_done", "from_raw_done"} =>
          /\ deRes.ok <=> (walkErr = "none")
          /\ deRes.err = walkErr
          /\ (pc = "raw_done" /\ deRes.ok) => deRes.rest = cursor
          \* the shape's first read on an input too short for it
          /\ Needs(shape) > Len(input) => deRes.err = "DeserializeUnexpectedEnd"

\* a read only shrinks the cursor, and one that needs more bytes than the
\* cursor has left fails with DeserializeUnexpectedEnd, taking nothing
C14_ReadStep ==
    (pc = "de_walk" /\ pc' = "de_walk") =>
        /\ IsSuffix(cursor', cursor)
        /\ input' = input
        /\ Needs(Head(todo)) > Len(cursor)
              => walkErr' = "DeserializeUnexpectedEnd" /\ cursor' = cursor
        /\ (Needs(Head(todo)) > 0 /\ Needs(Head(todo)) <= Len(cursor))
              => walkErr' # "DeserializeUnexpectedEnd"
        /\ (Needs(Head(todo)) > 0 /\ walkErr' = "none")
              => Len(cursor') = Len(cursor) - Needs(Head(todo))

\* C14: decoding never reads beyond the remaining input.  The cursor is at
\* every step a suffix of the original slice and only shrinks; a read that
\* needs k bytes (a fixed-width number, a tag byte, a str or bytes payload)
\* when fewer remain fails with DeserializeUnexpectedEnd, on an empty input
\* and on a length prefix larger than what is left as well.
C14_NoOverread == [](C14_CursorIsSuffix) /\ [][C14_ReadStep]_vars

\* a str whose length prefix says 3 with 2 bytes left has been refused after
\* the prefix was read
C14_Witness ==
    /\ pc = "raw_done"
    /\ shape.t = "str"
    /\ input = <<3, 1, 1>>
    /\ cursor = <<1, 1>>
    /\ walkErr = "DeserializeUnexpectedEnd"
    /\ deRes.err = "DeserializeUnexpectedEnd"

\* the effect on the sink of a try_push / try_extend call with data d that
\* returned ok: it succeeds exactly when idx + len <= buf.len(); then idx
\* advances by len and d lies at buf[old idx .. old idx + len], every other
\* byte as before; otherwise neither idx nor any byte of the buffer changes
CapacityRule(d, ok) ==
    LET fits == idx + Len(d) <= Len(buf)
    IN  /\ ok <=> fits
        /\ Len(buf') = Len(buf)
        /\ fits => /\ idx' = idx + Len(d)
                   /\ SubSeq(buf', idx + 1, idx + Len(d)) = d
                   /\ \A i \in 1..Len(buf) :
                         (i <= idx \/ i > idx + Len(d)) => buf'[i] = buf[i]
        /\ ~fits => idx' = idx /\ buf' = buf

\* every try_push / try_extend, of a caller of the sink and of to_slice,
\* follows the capacity rule; a failed call of to_slice ends it with
\* SerializeBufferFull
C15_SinkCall ==
    /\ (pc = "sink" /\ pc' = "sink" /\ call'.op \in {"push", "extend"})
            => CapacityRule(call'.data, call'.ok)
    /\ (pc = "to_slice" /\ ops # <<>>)
            => /\ CapacityRule(Head(ops).data, pc' = "to_slice")
               /\ pc' # "to_slice"
                     => pc' = "slice_done" /\ sliceRes' = SerErr("SerializeBufferFull")

\* C15: bounded sink capacity rule.  After any sequence of try_push and
\* try_extend calls on a SliceOutput 0 <= idx <= buf.len(); a call succeeds
\* exactly when its data fits in the remaining capacity, advancing idx by its
\* length and writing the data at buf[old idx .. old idx + len]; a call that
\* does not fit returns Err and leaves idx and every byte unchanged (try_extend
\* writes nothing, not even the part that would fit).
C15_CapacityRule ==
    /\ [](pc \in {"sink", "sink_done", "sink_panic", "to_slice", "slice_done"}
            => idx \in 0..Len(buf))
    /\ [][C15_SinkCall]_vars

\* a try_extend of two bytes with room for one has failed after earlier calls
C15_Witness ==
    /\ pc = "sink"
    /\ calls >= 2
    /\ call.op = "extend"
    /\ Len(call.data) = 2
    /\ ~call.ok
    /\ idx + 1 = Len(buf)

\* to_slice that failed: the error is that of the first call that did not fit,
\* what was written before it is the start of the encoding, the failed call
\* and all calls after it were never made, and nothing lies behind idx but the
\* bytes the caller's buffer came with
EncodeStopped ==
    /\ sliceRes = SerErr("SerializeBufferFull")
    /\ ops # <<>>
    /\ idx + Len(Head(ops).data) > Len(buf)
    /\ SubSeq(buf, 1, idx) = SubSeq(vecRes.ret, 1, idx)
    /\ OpsBytes(ops) = SubSeq(vecRes.ret, idx + 1, Len(vecRes.ret))
    /\ \A i \in (idx + 1)..Len(buf) : buf[i] \in {0, 170} /\ buf[i] = buf[Len(buf)]

\* a decode that failed: the error is the one the component being read gives
\* when decoded on its own at the cursor, that component and everything after
\* it are still to be read, and no value is returned
DecodeStopped ==
    /\ deRes = DeErr(walkErr)
    /\ walkErr # "none"
    /\ todo # <<>>
    /\ IF Head(todo).t \in {"str_payload", "bytes_payload"}
       THEN walkErr \in {"DeserializeUnexpectedEnd", "DeserializeBadUtf8"}
       ELSE Decode(Head(todo), cursor, usizeBits) = DeErr(walkErr)

C16_Failure ==
    /\ pc = "slice_done" =>
          IF Len(buf) >= Len(vecRes.ret)
          THEN sliceRes.ok /\ ops = <<>> /\ SubSeq(buf, 1, idx) = vecRes.ret
          ELSE EncodeStopped
    /\ (pc \in {"raw_done", "from_raw_done"} /\ ~deRes.ok) => DecodeStopped
    /\ (pc \in {"raw_done", "from_raw_done"} /\ deRes.ok)
          => walkErr = "none" /\ todo = <<>>

\* after the first failure nothing more is read or written: the next step is
\* the return of the error
C16_Stops ==
    /\ (pc = "de_walk" /\ walkErr # "none")
          => /\ cursor' = cursor /\ todo' = todo
             /\ pc' \in {"raw_done", "from_raw_done"}
             /\ deRes' = DeErr(walkErr)
    /\ (pc = "slice_done" /\ ~sliceRes.ok)
          => buf' = buf /\ idx' = idx /\ ops' = ops /\ sliceRes' = sliceRes

\* C16: error propagation through nested shapes.  The first component
\* operation that fails ends the whole call with that same error kind; no
\* later field is encoded or decoded after a failure (a (u16, u8) struct into
\* a 1-byte buffer fails with SerializeBufferFull rather than skipping the u16
\* and writing the u8), and the entry point returns that error to the caller.
C16_ErrorPropagation == [](C16_Failure) /\ [][C16_Stops]_vars

\* the (u16, u8) struct into a buffer of one byte: refused, nothing written
C16_Witness ==
    /\ pc = "slice_done"
    /\ name = "(u16, u8)"
    /\ Len(buf) = 1
    /\ idx = 0
    /\ buf[1] \in {0, 170}
    /\ sliceRes = SerErr("SerializeBufferFull")
    /\ vecRes.ret = <<205, 171, 7>>

\* a is the start of b
IsPrefix(a, b) == Len(a) <= Len(b) /\ a = SubSeq(b, 1, Len(a))

\* the bytes written to the slice sink so far
Written == SubSeq(buf, 1, idx)

\* one step of an encode: a call of to_vec on its VecOutput, a call of
\* to_slice or of a direct caller on a SliceOutput, or the release.  What was
\* written before the step is the start of what is written after it, and the
\* release hands back exactly what was written.
C17_Step ==
    /\ pc = "to_vec" =>
          /\ Len(vec') >= Len(vec)
          /\ IsPrefix(vec, vec')
          /\ pc' = "vec_done" => vecRes'.ok /\ vecRes'.ret = vec
    /\ (pc = "to_slice" \/ (pc = "sink" /\ call'.op \notin {"index", "index_mut"})) =>
          /\ idx' >= idx
          /\ \A i \in 1..idx : buf'[i] = buf[i]
          /\ IsPrefix(Written, SubSeq(buf', 1, idx'))
          /\ (pc' \in {"slice_done", "sink_done"} /\ sliceRes'.ok)
                => sliceRes'.ret[1] = Written
    /\ pc \in {"vec_done", "from_bytes_done", "take_done"} => vec' = vec
    /\ pc \in {"slice_done", "sink_done"} => buf' = buf /\ idx' = idx

\* C17: encoding is strictly append-only.  During any encode session, over
\* both sinks, the written length never decreases and a byte once written is
\* never changed by a later step, so what is written after k steps is a prefix
\* of what is written after any later step and of the released output.
C17_AppendOnly ==
    /\ [][C17_Step]_vars
    /\ [](pc = "to_vec" => IsPrefix(vec, Encoding(shape, value)))
    /\ [](pc = "to_slice" => IsPrefix(Written, vecRes.ret))

\* to_vec is in the middle of a value of several calls: bytes are written and
\* calls are still to come
C17_Witness ==
    /\ pc = "to_vec"
    /\ name = "DataEnum::Sho"
    /\ vec = <<5, 105, 105>>
    /\ Len(ops) = 1

====
